---- MODULE Spec2Model ----
(***************************************************************************)
(* A model of src/inventory_system.py: the InventorySystem class, its      *)
(* item -> quantity dictionary, the validated mutations add_item and       *)
(* remove_item, the queries get_qty, check_low_items and as_dict, and the  *)
(* JSON persistence of save_data and load_data.                            *)
(*                                                                         *)
(* Python values are records that carry their type, dictionaries are       *)
(* insertion-ordered sequences of key/value entries living in a heap of    *)
(* objects addressed by references, and JSON documents are trees whose     *)
(* numbers and strings are sequences of characters.                        *)
(***************************************************************************)
EXTENDS Integers, Sequences, FiniteSets, TLC

(***************************************************************************)
(* Bounds of the model.                                                    *)
(***************************************************************************)
\* add_item is not called once it would push a quantity above MaxQty.
MaxQty == 2
\* add_item is not called on a name once MaxTotal units of it were added.
MaxTotal == 3
\* Number of heap cells for dictionaries.
NumRefs == 3
\* A quantity of more than one digit that a store can be created with.
LargeQty == 12

(***************************************************************************)
(* Python values.  t is the type, n the numeric value of an int or bool,   *)
(* s the characters of a str.                                              *)
(***************************************************************************)
PyInt(n) == [t |-> "int", n |-> n, s |-> << >>]
PyBool(b) == [t |-> "bool", n |-> IF b THEN 1 ELSE 0, s |-> << >>]
PyStr(s) == [t |-> "str", n |-> 0, s |-> s]
PyFloat == [t |-> "float", n |-> 0, s |-> << >>]
PyNone == [t |-> "NoneType", n |-> 0, s |-> << >>]
PyList == [t |-> "list", n |-> 0, s |-> << >>]
PyDict == [t |-> "dict", n |-> 0, s |-> << >>]
\* What a failed evaluation yields in place of a value.
PyRaise == [t |-> "raise", n |-> 0, s |-> << >>]

\* isinstance(v, int): bool is a subclass of int.
IsInstanceInt(v) == v.t \in {"int", "bool"}
\* isinstance(v, str)
IsInstanceStr(v) == v.t = "str"

(***************************************************************************)
(* Dictionaries: sequences of entries [k, v] with pairwise distinct keys,  *)
(* in insertion order.                                                     *)
(***************************************************************************)
DictKeys(d) == {d[i].k : i \in 1..Len(d)}
DictHas(d, k) == k \in DictKeys(d)
DictIndex(d, k) == CHOOSE i \in 1..Len(d) : d[i].k = k
\* d.get(k, default)
DictGet(d, k, default) == IF DictHas(d, k) THEN d[DictIndex(d, k)].v ELSE default
\* d[k] = v: an existing key keeps its position, a new one goes last.
DictSet(d, k, v) ==
    IF DictHas(d, k)
    THEN [d EXCEPT ![DictIndex(d, k)] = [k |-> k, v |-> v]]
    ELSE Append(d, [k |-> k, v |-> v])
\* del d[k]
DictDel(d, k) == SelectSeq(d, LAMBDA e : e.k # k)

(***************************************************************************)
(* Decimal text of integers.                                               *)
(***************************************************************************)
Digits == <<"0", "1", "2", "3", "4", "5", "6", "7", "8", "9">>
IsDigit(c) == \E i \in 1..Len(Digits) : Digits[i] = c
DigitVal(c) == (CHOOSE i \in 1..Len(Digits) : Digits[i] = c) - 1
AllDigits(s) == Len(s) > 0 /\ \A i \in 1..Len(s) : IsDigit(s[i])

RECURSIVE NatToChars(_)
NatToChars(n) ==
    IF n < 10 THEN <<Digits[n + 1]>>
    ELSE Append(NatToChars(n \div 10), Digits[(n % 10) + 1])
\* int.__repr__, which json.dump uses for int values.
IntToChars(n) == IF n < 0 THEN <<"-">> \o NatToChars(-n) ELSE NatToChars(n)

RECURSIVE CharsToNat(_)
CharsToNat(s) ==
    IF Len(s) = 0 THEN 0
    ELSE 10 * CharsToNat(SubSeq(s, 1, Len(s) - 1)) + DigitVal(s[Len(s)])

(***************************************************************************)
(* JSON documents as json.load reads them and json.dump writes them.  A    *)
(* JSON value has a kind j, the characters s of a number or string token,  *)
(* and the members m of an object, each a key with a JSON value.           *)
(***************************************************************************)
JNum(s) == [j |-> "number", s |-> s, m |-> << >>]
JStr(s) == [j |-> "string", s |-> s, m |-> << >>]
JTrue == [j |-> "true", s |-> << >>, m |-> << >>]
JFalse == [j |-> "false", s |-> << >>, m |-> << >>]
JNull == [j |-> "null", s |-> << >>, m |-> << >>]
JArr == [j |-> "array", s |-> << >>, m |-> << >>]
JObj(m) == [j |-> "object", s |-> << >>, m |-> m]

\* The body of a number token after its optional minus sign.
Unsigned(s) == IF Len(s) > 0 /\ s[1] \in {"-", "+"} THEN Tail(s) ELSE s
Negative(s) == Len(s) > 0 /\ s[1] = "-"
SignedVal(s) == IF Negative(s) THEN 0 - CharsToNat(Unsigned(s)) ELSE CharsToNat(Unsigned(s))

\* json.load on one value: a number token without fraction or exponent is an
\* int, any other number a float; an object nested in a value is a dict.
JsonToPy(v) ==
    CASE v.j = "number" ->
            IF AllDigits(Unsigned(v.s)) THEN PyInt(SignedVal(v.s)) ELSE PyFloat
      [] v.j = "string" -> PyStr(v.s)
      [] v.j = "true" -> PyBool(TRUE)
      [] v.j = "false" -> PyBool(FALSE)
      [] v.j = "null" -> PyNone
      [] v.j = "array" -> PyList
      [] v.j = "object" -> PyDict

\* json.load on the members of the top-level object: keys are always str,
\* and of two members with one key the later value wins.
RECURSIVE JsonObjectToDict(_)
JsonObjectToDict(m) ==
    IF Len(m) = 0 THEN << >>
    ELSE DictSet(JsonObjectToDict(SubSeq(m, 1, Len(m) - 1)),
                 PyStr(m[Len(m)].k), JsonToPy(m[Len(m)].v))

\* json.dump writing every quantity as a float.
PyToJsonFloat(v) == JNum(IntToChars(v.n) \o <<".", "0">>)

\* json.dump on one value of the inventory: True and False are written as
\* true and false, any other int in decimal.
PyToJson(v) ==
    CASE v.t = "bool" -> IF v.n = 1 THEN JTrue ELSE JFalse
      [] v.t = "int" -> JNum(IntToChars(v.n))
      [] v.t = "str" -> JStr(v.s)
      [] OTHER -> JNull

\* json.dump(self._inventory, fh, ensure_ascii=False, indent=2)
JsonDump(d) == JObj([i \in 1..Len(d) |-> [k |-> d[i].k.s, v |-> PyToJson(d[i].v)]])

(***************************************************************************)
(* ast.literal_eval on a string made of digits, signs, dots and letters.   *)
(* A decimal integer literal has no leading zero unless it is all zeros;   *)
(* one sign may precede a number; True, False and None are the keyword     *)
(* constants; anything else of this alphabet raises ValueError or          *)
(* SyntaxError.                                                            *)
(***************************************************************************)
IsDecInteger(s) ==
    /\ AllDigits(s)
    /\ (s[1] # "0" \/ \A i \in 1..Len(s) : s[i] = "0")
IsFloatLiteral(s) ==
    /\ Cardinality({i \in 1..Len(s) : s[i] = "."}) = 1
    /\ \A i \in 1..Len(s) : s[i] = "." \/ IsDigit(s[i])
    /\ \E i \in 1..Len(s) : IsDigit(s[i])
LiteralEval(s) ==
    CASE s = <<"T", "r", "u", "e">> -> PyBool(TRUE)
      [] s = <<"F", "a", "l", "s", "e">> -> PyBool(FALSE)
      [] s = <<"N", "o", "n", "e">> -> PyNone
      [] IsDecInteger(Unsigned(s)) -> PyInt(SignedVal(s))
      [] IsFloatLiteral(Unsigned(s)) -> PyFloat
      [] OTHER -> PyRaise

(***************************************************************************)
(* InventorySystem.add_item and remove_item on the dictionary d: the       *)
(* exception raised ("none" when the call returns) and the dictionary      *)
(* afterwards.                                                             *)
(***************************************************************************)
\* The exceptions the class raises, by type and message.
ErrName == "ValueError: name must be a non-empty string"
ErrQty == "ValueError: qty must be a positive integer"
ErrNotFound == "KeyError: item not found"
ErrNotEnough == "ValueError: not enough quantity to remove"
ErrThreshold == "ValueError: threshold must be a non-negative integer"
ErrNoFile == "FileNotFoundError"
ErrDecode == "JSONDecodeError"
ErrNotObject == "ValueError: inventory file must contain a JSON object"
ErrKey == "ValueError: inventory keys must be strings"
ErrQuantity == "ValueError: invalid quantity"
ErrQuantityType == "ValueError: invalid quantity type"

PyAdd(a, b) == PyInt(a.n + b.n)
PySub(a, b) == PyInt(a.n - b.n)
Raised(err, d) == [err |-> err, d |-> d]
Returned(d) == [err |-> "none", d |-> d]

\* add_item storing qty in place of prev + qty.
AddOutcomeOverwrite(d, name, qty) ==
    IF ~IsInstanceStr(name) \/ Len(name.s) = 0 THEN Raised(ErrName, d)
    ELSE IF ~IsInstanceInt(qty) \/ qty.n <= 0 THEN Raised(ErrQty, d)
    ELSE Returned(DictSet(d, name, PyInt(qty.n)))

AddOutcome(d, name, qty) ==
    IF ~IsInstanceStr(name) \/ Len(name.s) = 0 THEN Raised(ErrName, d)
    ELSE IF ~IsInstanceInt(qty) \/ qty.n <= 0 THEN Raised(ErrQty, d)
    ELSE LET prev == DictGet(d, name, PyInt(0))
         IN  Returned(DictSet(d, name, PyAdd(prev, qty)))

\* remove_item without the del of lines 65-66.
RemoveOutcomeKeepZero(d, name, qty) ==
    IF ~IsInstanceInt(qty) \/ qty.n <= 0 THEN Raised(ErrQty, d)
    ELSE IF ~DictHas(d, name) THEN Raised(ErrNotFound, d)
    ELSE IF DictGet(d, name, PyNone).n < qty.n THEN Raised(ErrNotEnough, d)
    ELSE Returned(DictSet(d, name, PySub(DictGet(d, name, PyNone), qty)))

\* remove_item with the decrement moved above the check of line 61.
RemoveOutcomeDecrementFirst(d, name, qty) ==
    IF ~IsInstanceInt(qty) \/ qty.n <= 0 THEN Raised(ErrQty, d)
    ELSE IF ~DictHas(d, name) THEN Raised(ErrNotFound, d)
    ELSE LET d1 == DictSet(d, name, PySub(DictGet(d, name, PyNone), qty))
         IN  IF DictGet(d1, name, PyNone).n < 0 THEN Raised(ErrNotEnough, d1)
             ELSE IF DictGet(d1, name, PyNone).n = 0
             THEN Returned(DictDel(d1, name))
             ELSE Returned(d1)

RemoveOutcome(d, name, qty) ==
    IF ~IsInstanceInt(qty) \/ qty.n <= 0 THEN Raised(ErrQty, d)
    ELSE IF ~DictHas(d, name) THEN Raised(ErrNotFound, d)
    ELSE IF DictGet(d, name, PyNone).n < qty.n THEN Raised(ErrNotEnough, d)
    ELSE LET d1 == DictSet(d, name, PySub(DictGet(d, name, PyNone), qty))
         IN  IF DictGet(d1, name, PyNone).n = 0
             THEN Returned(DictDel(d1, name))
             ELSE Returned(d1)

\* get_qty: int(self._inventory.get(name, 0))
GetQty(d, name) == PyInt(DictGet(d, name, PyInt(0)).n)

\* check_low_items comparing with < in place of <=.
CheckLowItemsStrict(d, threshold) ==
    IF ~IsInstanceInt(threshold) \/ threshold.n < 0
    THEN [err |-> ErrThreshold, names |-> << >>]
    ELSE LET low == SelectSeq(d, LAMBDA e : e.v.n < threshold.n)
         IN  [err |-> "none", names |-> [i \in 1..Len(low) |-> low[i].k]]

\* check_low_items: the names of the entries with qty <= threshold, in the
\* dictionary's order.
CheckLowItems(d, threshold) ==
    IF ~IsInstanceInt(threshold) \/ threshold.n < 0
    THEN [err |-> ErrThreshold, names |-> << >>]
    ELSE LET low == SelectSeq(d, LAMBDA e : e.v.n <= threshold.n)
         IN  [err |-> "none", names |-> [i \in 1..Len(low) |-> low[i].k]]

(***************************************************************************)
(* InventorySystem.load_data.  A file is missing, or holds text that is    *)
(* not JSON, or holds a JSON document.                                     *)
(***************************************************************************)
FileMissing == [kind |-> "missing", doc |-> JNull]
FileInvalid == [kind |-> "invalid", doc |-> JNull]
FileJson(doc) == [kind |-> "json", doc |-> doc]

\* The loop over data.items(): the entries before the first invalid one are
\* in normalized when the loop raises.
RECURSIVE Normalize(_, _, _)
Normalize(data, i, normalized) ==
    IF i > Len(data) THEN [err |-> "none", normalized |-> normalized]
    ELSE LET k == data[i].k
             v == data[i].v
             fail(err) == [err |-> err, normalized |-> normalized]
         IN  IF ~IsInstanceStr(k) THEN fail(ErrKey)
             ELSE IF ~IsInstanceInt(v)
             THEN IF IsInstanceStr(v)
                  THEN LET v_eval == LiteralEval(v.s)
                       IN  IF v_eval = PyRaise THEN fail(ErrQuantity)
                           ELSE IF ~IsInstanceInt(v_eval) THEN fail(ErrQuantity)
                           ELSE Normalize(data, i + 1, DictSet(normalized, k, v_eval))
                  ELSE fail(ErrQuantityType)
             ELSE Normalize(data, i + 1, DictSet(normalized, k, v))

\* load_data up to the assignment of line 112.
LoadOutcome(file) ==
    IF file.kind = "missing" THEN [err |-> ErrNoFile, normalized |-> << >>]
    ELSE IF file.kind = "invalid" THEN [err |-> ErrDecode, normalized |-> << >>]
    ELSE IF file.doc.j # "object" THEN [err |-> ErrNotObject, normalized |-> << >>]
    ELSE Normalize(JsonObjectToDict(file.doc.m), 1, << >>)

(***************************************************************************)
(* The heap.  A dictionary is an object: self._inventory and the mapping a *)
(* caller got from as_dict are references to heap cells, and a cell no     *)
(* reference reaches is empty.                                             *)
(***************************************************************************)
Refs == 1..NumRefs
NoRef == 0
Collect(h, live) == [r \in Refs |-> IF r \in live THEN h[r] ELSE << >>]
Fresh(live) == CHOOSE r \in Refs : r \notin live

\* dict(initial or {}) of __init__: the store owns a new dictionary.
Construct(initial) ==
    [heap |-> [r \in Refs |-> IF r = 1 THEN initial ELSE << >>], ref |-> 1]

\* The end of add_item and remove_item: the dictionary self._inventory
\* refers to is changed in place.
StoreInPlace(h, inv, d) == [heap |-> [h EXCEPT ![inv] = d], ref |-> inv]

\* load_data filling self._inventory itself instead of a local dictionary.
LoadStoreDirect(h, inv, exp, out) ==
    [heap |-> [h EXCEPT ![inv] = out.normalized], ref |-> inv]

\* The end of load_data: self._inventory = normalized when nothing was
\* raised; the dictionary it referred to is left as it was.
LoadStore(h, inv, exp, out) ==
    IF out.err = "none"
    THEN LET r == Fresh({inv, exp})
         IN  [heap |-> Collect([h EXCEPT ![r] = out.normalized], {r, exp}), ref |-> r]
    ELSE [heap |-> h, ref |-> inv]

\* as_dict returning self._inventory itself.
AsDictAlias(h, inv, exp) == [heap |-> Collect(h, {inv}), ref |-> inv]

\* as_dict: dict(self._inventory), a new dictionary with the same entries.
AsDict(h, inv, exp) ==
    LET r == Fresh({inv, exp})
    IN  [heap |-> Collect([h EXCEPT ![r] = h[inv]], {inv, r}), ref |-> r]

(***************************************************************************)
(* State.                                                                  *)
(***************************************************************************)
VARIABLES
    heap,            \* the dictionaries, by reference
    self_inventory,  \* the reference self._inventory holds
    exported,        \* the reference a caller holds from as_dict, or NoRef
    disk,            \* the file save_data writes
    lastOp,          \* the last call and the exception it raised
    result,          \* what the last call returned
    added,           \* per name, the units added by successful add_item calls
    removed,         \* per name, the units removed by successful remove_item calls
    shadow           \* per name, the inventory of a store that got the same
                     \* calls except the add_item and remove_item on that name

vars == <<heap, self_inventory, exported, disk, lastOp, result, added, removed, shadow>>
history == <<added, removed, shadow>>

\* The store's mapping, and the caller's.
Inventory == heap[self_inventory]
Exported == IF exported = NoRef THEN << >> ELSE heap[exported]

(***************************************************************************)
(* Inputs.                                                                 *)
(***************************************************************************)
ItemNames == {PyStr(<<"a">>), PyStr(<<"b">>)}
NameArgs == ItemNames \cup {PyStr(<< >>), PyNone}
QtyArgs == {PyInt(q) : q \in -1..2} \cup {PyBool(TRUE), PyStr(<<"1">>)}
ThresholdArgs == {PyInt(q) : q \in -1..MaxQty} \cup {PyBool(TRUE), PyNone}

\* The mappings a store is created from: names to positive integers.
RECURSIVE DictsOver(_)
DictsOver(names) ==
    {<< >>} \cup
    UNION {{<<[k |-> k, v |-> PyInt(q)]>> \o d : d \in DictsOver(names \ {k})}
           : <<k, q>> \in names \X (1..MaxQty)}
Initials == DictsOver(ItemNames)

\* The files load_data is given: an absent path, text that is not JSON, a
\* JSON array, and every object of at most two members over these keys and
\* values.
FileKeys == {<< >>, <<"a">>}
FileValues ==
    {JNum(<<"2">>), JNum(<<"0">>), JNum(<<"1", ".", "5">>),
     JStr(<<"-", "1">>), JStr(<<"a">>), JTrue}
Members == [k : FileKeys, v : FileValues]
Objects == {<< >>} \cup {<<e>> : e \in Members} \cup {<<e, f>> : e \in Members, f \in Members}
Files == {FileMissing, FileInvalid, FileJson(JArr)} \cup {FileJson(JObj(m)) : m \in Objects}

(***************************************************************************)
(* Initial states.                                                         *)
(***************************************************************************)
Called(op, err) == [op |-> op, err |-> err]
NoResult == [t |-> "None", v |-> PyNone, names |-> << >>]

InitWith(initial) ==
    /\ heap = Construct(initial).heap
    /\ self_inventory = Construct(initial).ref
    /\ exported = NoRef
    /\ disk = FileMissing
    /\ lastOp = Called("__init__", "none")
    /\ result = NoResult
    /\ added = [n \in ItemNames |-> 0]
    /\ removed = [n \in ItemNames |-> 0]
    /\ shadow = [n \in ItemNames |-> << >>]

Init == \E initial \in Initials : InitWith(initial)

(***************************************************************************)
(* The calls.                                                              *)
(***************************************************************************)
\* What every call leaves alone unless it says otherwise.
Store(cell) ==
    /\ heap' = cell.heap
    /\ self_inventory' = cell.ref

add_item(name, qty) ==
    LET out == AddOutcome(Inventory, name, qty)
    IN  /\ out.err = "none" => DictGet(out.d, name, PyNone).n <= MaxQty
        /\ Store(StoreInPlace(heap, self_inventory, out.d))
        /\ lastOp' = Called("add_item", out.err)
        /\ result' = NoResult
        /\ UNCHANGED <<exported, disk>>

remove_item(name, qty) ==
    LET out == RemoveOutcome(Inventory, name, qty)
    IN  /\ Store(StoreInPlace(heap, self_inventory, out.d))
        /\ lastOp' = Called("remove_item", out.err)
        /\ result' = NoResult
        /\ UNCHANGED <<exported, disk>>

get_qty(name) ==
    /\ lastOp' = Called("get_qty", "none")
    /\ result' = [t |-> "int", v |-> GetQty(Inventory, name), names |-> << >>]
    /\ UNCHANGED <<heap, self_inventory, exported, disk>>

check_low_items(threshold) ==
    LET out == CheckLowItems(Inventory, threshold)
    IN  /\ lastOp' = Called("check_low_items", out.err)
        /\ result' = IF out.err = "none"
                     THEN [t |-> "list", v |-> PyNone, names |-> out.names]
                     ELSE NoResult
        /\ UNCHANGED <<heap, self_inventory, exported, disk>>

load_data(file) ==
    LET out == LoadOutcome(file)
    IN  /\ Store(LoadStore(heap, self_inventory, exported, out))
        /\ lastOp' = Called("load_data", out.err)
        /\ result' = NoResult
        /\ UNCHANGED <<exported, disk>>

save_data ==
    /\ disk' = FileJson(JsonDump(Inventory))
    /\ lastOp' = Called("save_data", "none")
    /\ result' = NoResult
    /\ UNCHANGED <<heap, self_inventory, exported>>

as_dict ==
    LET cell == AsDict(heap, self_inventory, exported)
    IN  /\ heap' = cell.heap
        /\ exported' = cell.ref
        /\ lastOp' = Called("as_dict", "none")
        /\ result' = [t |-> "dict", v |-> PyNone, names |-> << >>]
        /\ UNCHANGED <<self_inventory, disk>>

\* The caller of as_dict changes the mapping it was given: it sets an entry
\* or deletes one.
caller_sets(name, qty) ==
    /\ exported # NoRef
    /\ heap' = [heap EXCEPT ![exported] = DictSet(@, name, qty)]
    /\ lastOp' = Called("caller_sets", "none")
    /\ result' = NoResult
    /\ UNCHANGED <<self_inventory, exported, disk>>

caller_deletes(name) ==
    /\ exported # NoRef
    /\ DictHas(heap[exported], name)
    /\ heap' = [heap EXCEPT ![exported] = DictDel(@, name)]
    /\ lastOp' = Called("caller_deletes", "none")
    /\ result' = NoResult
    /\ UNCHANGED <<self_inventory, exported, disk>>

(***************************************************************************)
(* The store under add_item, remove_item and load_data, created from any   *)
(* mapping of names to positive integers.                                  *)
(***************************************************************************)
Next ==
    \/ \E name \in NameArgs, qty \in QtyArgs : add_item(name, qty) /\ UNCHANGED history
    \/ \E name \in NameArgs, qty \in QtyArgs : remove_item(name, qty) /\ UNCHANGED history
    \/ \E file \in Files : load_data(file) /\ UNCHANGED history

Spec == Init /\ [][Next]_vars

(***************************************************************************)
(* A store created empty under add_item and remove_item, with the history  *)
(* of its successful calls.                                                *)
(***************************************************************************)
TrackAdd(name, qty) ==
    /\ added' = IF lastOp'.err = "none" /\ name \in ItemNames
                THEN [added EXCEPT ![name] = @ + qty.n] ELSE added
    /\ removed' = removed
    /\ shadow' = [n \in ItemNames |->
                    IF n = name THEN shadow[n] ELSE AddOutcome(shadow[n], name, qty).d]

TrackRemove(name, qty) ==
    /\ added' = added
    /\ removed' = IF lastOp'.err = "none" /\ name \in ItemNames
                  THEN [removed EXCEPT ![name] = @ + qty.n] ELSE removed
    /\ shadow' = [n \in ItemNames |->
                    IF n = name THEN shadow[n] ELSE RemoveOutcome(shadow[n], name, qty).d]

NextAddRemove ==
    \/ \E name \in NameArgs, qty \in QtyArgs :
          /\ name \in ItemNames /\ IsInstanceInt(qty) => added[name] + qty.n <= MaxTotal
          /\ add_item(name, qty)
          /\ TrackAdd(name, qty)
    \/ \E name \in NameArgs, qty \in QtyArgs : remove_item(name, qty) /\ TrackRemove(name, qty)

SpecAddRemove == InitWith(<< >>) /\ [][NextAddRemove]_vars

(***************************************************************************)
(* The store with its queries; load_data reads the objects of one member.  *)
(***************************************************************************)
SmallFiles == {FileJson(JObj(<<e>>)) : e \in Members}

NextQuery ==
    \/ \E name \in NameArgs, qty \in QtyArgs : add_item(name, qty) /\ UNCHANGED history
    \/ \E name \in NameArgs, qty \in QtyArgs : remove_item(name, qty) /\ UNCHANGED history
    \/ \E file \in SmallFiles : load_data(file) /\ UNCHANGED history
    \/ \E name \in NameArgs : get_qty(name) /\ UNCHANGED history
    \/ \E threshold \in ThresholdArgs : check_low_items(threshold) /\ UNCHANGED history

SpecQuery == InitWith(<< >>) /\ [][NextQuery]_vars

(***************************************************************************)
(* The store and its file: save_data writes it, load_data reads it back.   *)
(***************************************************************************)
PersistNames == {PyStr(<<"a">>), PyStr(<< >>)}

NextPersist ==
    \/ \E name \in PersistNames, qty \in QtyArgs : add_item(name, qty) /\ UNCHANGED history
    \/ \E name \in PersistNames, qty \in QtyArgs : remove_item(name, qty) /\ UNCHANGED history
    \/ save_data /\ UNCHANGED history
    \/ load_data(disk) /\ UNCHANGED history

\* Mappings of string keys, the empty one among them, to positive integers.
PersistInitials ==
    DictsOver(PersistNames) \cup
    {<<[k |-> PyStr(<< >>), v |-> PyInt(1)], [k |-> PyStr(<<"a">>), v |-> PyInt(LargeQty)]>>}
SpecPersist == (\E initial \in PersistInitials : InitWith(initial)) /\ [][NextPersist]_vars

(***************************************************************************)
(* The store and a caller that holds the mapping as_dict returned.         *)
(***************************************************************************)
ExportFiles == {FileInvalid, FileJson(JObj(<<[k |-> <<"a">>, v |-> JNum(<<"2">>)]>>))}

NextExport ==
    \/ \E name \in ItemNames : add_item(name, PyInt(1)) /\ UNCHANGED history
    \/ \E name \in ItemNames : remove_item(name, PyInt(1)) /\ UNCHANGED history
    \/ \E file \in ExportFiles : load_data(file) /\ UNCHANGED history
    \/ as_dict /\ UNCHANGED history
    \/ \E name \in ItemNames : caller_sets(name, PyInt(1)) /\ UNCHANGED history
    \/ \E name \in ItemNames : caller_deletes(name) /\ UNCHANGED history

SpecExport == InitWith(<< >>) /\ [][NextExport]_vars

(***************************************************************************)
(* Properties.                                                             *)
(***************************************************************************)
Mutators == {"add_item", "remove_item"}

\* Python's d1 == d2 on dictionaries of quantities: the same keys with
\* equal values, whatever the order, where True == 1 and False == 0.
PyEq(a, b) ==
    IF IsInstanceInt(a) /\ IsInstanceInt(b) THEN a.n = b.n ELSE a = b
DictEq(d1, d2) ==
    /\ DictKeys(d1) = DictKeys(d2)
    /\ \A k \in DictKeys(d1) : PyEq(DictGet(d1, k, PyNone), DictGet(d2, k, PyNone))

\* C1: after any sequence of add_item, remove_item and load_data calls on a
\* store created from names with positive quantities, every key of the
\* inventory is a non-empty string and every value is an integer > 0.
C1_StoredEntriesValid ==
    \A i \in 1..Len(Inventory) :
        /\ IsInstanceStr(Inventory[i].k) /\ Len(Inventory[i].k.s) > 0
        /\ IsInstanceInt(Inventory[i].v) /\ Inventory[i].v.n > 0

\* C2: an add_item or remove_item call that raises leaves self._inventory
\* the same dictionary with the same entries.
C2_FailedMutationKeepsMapping ==
    [][lastOp'.op \in Mutators /\ lastOp'.err # "none"
         => self_inventory' = self_inventory /\ Inventory' = Inventory]_vars

\* C2 witness: remove_item asked for more than the quantity held and raised.
C2_Witness ==
    /\ lastOp = Called("remove_item", ErrNotEnough)
    /\ \E i \in 1..Len(Inventory) : Inventory[i].v.n = 1

\* C3: a load_data call that raises, for whatever reason, leaves
\* self._inventory the same dictionary with the same entries.
C3_FailedLoadKeepsMapping ==
    [][lastOp'.op = "load_data" /\ lastOp'.err # "none"
         => self_inventory' = self_inventory /\ Inventory' = Inventory]_vars

\* C3 witness: load_data met an invalid value on a store that holds entries.
C3_Witness ==
    /\ lastOp.op = "load_data"
    /\ lastOp.err \in {ErrQuantity, ErrQuantityType}
    /\ Len(Inventory) = 2

\* The members of a JSON object that json.load keeps: of two members with
\* one key, the later.
LastMembers(m) ==
    {m[i] : i \in {i \in 1..Len(m) : \A j \in (i + 1)..Len(m) : m[j].k # m[i].k}}
IsObjectFile(file) == file.kind = "json" /\ file.doc.j = "object"

\* A JSON value that is an integer, or a string holding an integer literal.
IsIntegerValue(v) == v.j = "number" /\ AllDigits(Unsigned(v.s))
IsIntegerString(v) == v.j = "string" /\ IsDecInteger(Unsigned(v.s))
\* The integer such a value denotes.
Denoted(v) == SignedVal(v.s)

\* C6: load_data of a JSON object succeeds exactly when every value is an
\* integer or a string holding an integer literal; a value of any other
\* type, a boolean among them, makes it raise ValueError.
C6_OnlyIntegersAccepted ==
    [][\A file \in Files :
          IsObjectFile(file) /\ load_data(file)
          => /\ lastOp'.err = "none"
                <=> \A e \in LastMembers(file.doc.m) :
                        IsIntegerValue(e.v) \/ IsIntegerString(e.v)
             /\ lastOp'.err \in {"none", ErrQuantity, ErrQuantityType}]_vars

\* C10: a load_data call that returns leaves exactly the keys of the file's
\* object in the inventory, each with the integer its value in the file
\* denotes, zero included, whatever the inventory held before.
C10_LoadReplacesWithIntegers ==
    [][\A file \in Files :
          IsObjectFile(file) /\ load_data(file) /\ lastOp'.err = "none"
          => /\ DictKeys(Inventory') = {PyStr(e.k) : e \in LastMembers(file.doc.m)}
             /\ \A e \in LastMembers(file.doc.m) :
                    DictGet(Inventory', PyStr(e.k), PyNone) = PyInt(Denoted(e.v))]_vars

\* C4: in a store created empty, after every add_item and remove_item call
\* get_qty of each name is the units added to it by the calls that returned
\* minus the units removed from it by the calls that returned; a name no
\* call can add has quantity 0.
C4_QuantityIsAddedMinusRemoved ==
    /\ \A n \in ItemNames : GetQty(Inventory, n) = PyInt(added[n] - removed[n])
    /\ \A n \in NameArgs \ ItemNames : GetQty(Inventory, n) = PyInt(0)

\* C4 witness: a name was added to twice and removed from, and some is left.
C4_Witness ==
    \E n \in ItemNames :
        /\ added[n] = MaxTotal
        /\ removed[n] = 2
        /\ GetQty(Inventory, n) = PyInt(MaxTotal - 2)

\* C7: a remove_item call that returns lowers the quantity of the name by
\* exactly qty; when that leaves 0 the name is gone from the inventory and
\* from the copy as_dict gives, get_qty is 0, and the inventory equals that
\* of a store that got the same calls without those on the name.
C7_RemoveDecrementsAndDeletesAtZero ==
    [][\A name \in NameArgs, qty \in QtyArgs :
          remove_item(name, qty) /\ lastOp'.err = "none"
          => /\ GetQty(Inventory', name).n = GetQty(Inventory, name).n - qty.n
             /\ DictHas(Inventory, name)
             /\ GetQty(Inventory', name).n = 0
                => /\ ~DictHas(Inventory', name)
                   /\ ~DictHas(AsDict(heap', self_inventory', exported').heap[
                                 AsDict(heap', self_inventory', exported').ref], name)
                   /\ DictEq(Inventory', shadow'[name])]_vars

\* C7 witness: the last units of one name were removed while another name
\* is in stock.
C7_Witness ==
    /\ lastOp = Called("remove_item", "none")
    /\ \E n \in ItemNames :
         /\ added[n] > 0 /\ added[n] = removed[n]
         /\ ~DictHas(Inventory, n)
         /\ Len(Inventory) = 1

\* C8: check_low_items with an integer threshold >= 0 returns each name of
\* the inventory whose quantity is <= threshold once and no other name;
\* with a negative threshold it raises ValueError and returns nothing; in
\* both cases the inventory is unchanged.
C8_LowItemsAreExactlyThoseAtOrBelow ==
    [][\A threshold \in {th \in ThresholdArgs : th.t = "int"} :
          check_low_items(threshold)
          => /\ self_inventory' = self_inventory /\ Inventory' = Inventory
             /\ IF threshold.n >= 0
                THEN /\ lastOp'.err = "none"
                     /\ result'.t = "list"
                     /\ {result'.names[i] : i \in 1..Len(result'.names)}
                          = {k \in DictKeys(Inventory) :
                                DictGet(Inventory, k, PyNone).n <= threshold.n}
                     /\ \A i, j \in 1..Len(result'.names) :
                            result'.names[i] = result'.names[j] => i = j
                ELSE /\ lastOp'.err = ErrThreshold
                     /\ result' = NoResult]_vars

\* C8 witness: check_low_items returned some names of the inventory and
\* left out others.
C8_Witness ==
    /\ lastOp = Called("check_low_items", "none")
    /\ Len(result.names) > 0
    /\ Len(result.names) < Len(Inventory)

\* The inventory of a store created empty after load_data of the file.
LoadedFresh(file) ==
    LET cell == LoadStore(Construct(<< >>).heap, Construct(<< >>).ref, NoRef,
                          LoadOutcome(file))
    IN  cell.heap[cell.ref]

\* C5: save_data leaves the inventory as it is, and a load_data that
\* directly follows it, in the same store or in one created empty, returns
\* and leaves an inventory with the same entries as before the save.
C5_SaveThenLoadRoundTrips ==
    [][/\ lastOp'.op = "save_data"
          => /\ self_inventory' = self_inventory /\ Inventory' = Inventory
             /\ LoadOutcome(disk').err = "none"
             /\ LoadedFresh(disk') = Inventory
       /\ lastOp.op = "save_data" /\ lastOp'.op = "load_data"
          => lastOp'.err = "none" /\ Inventory' = Inventory]_vars

\* C5 witness: an inventory of two entries, one with a quantity of two
\* digits, was loaded back from the file save_data wrote.
C5_Witness ==
    /\ lastOp = Called("load_data", "none")
    /\ disk = FileJson(JsonDump(Inventory))
    /\ Len(Inventory) = 2
    /\ \E i \in 1..Len(Inventory) : Inventory[i].v.n >= 10

\* C9: as_dict gives a dictionary of its own with the entries of the
\* inventory; what the caller then does to it leaves the inventory as it
\* is, and what add_item, remove_item and load_data do to the inventory
\* leaves a dictionary given earlier as it is.
C9_ExportedCopyIsIndependent ==
    [][/\ lastOp'.op = "as_dict"
          => /\ exported' # self_inventory'
             /\ Exported' = Inventory
             /\ Inventory' = Inventory
       /\ lastOp'.op \in {"caller_sets", "caller_deletes"}
          => Inventory' = Inventory
       /\ lastOp'.op \in {"add_item", "remove_item", "load_data"}
          => Exported' = Exported]_vars

\* C9 witness: the caller changed the dictionary it was given, which now
\* differs from the inventory.
C9_Witness ==
    /\ lastOp.op \in {"caller_sets", "caller_deletes"}
    /\ Len(Inventory) > 0
    /\ ~DictEq(Exported, Inventory)

====
